---------------------------- MODULE Spec2Model ----------------------------
(***************************************************************************)
(* A model of the-blue-book-v1.py: the text extractor (extract_pdf_text), *)
(* the model client (call_gemini_api), the field extractor                *)
(* (parse_gemini_response) and the analysis pipeline that chains them.    *)
(*                                                                         *)
(* Text is a sequence of one-character strings, so that the regular       *)
(* expressions of the source are matched character by character.          *)
(* A Python value whose type can vary (None, str, list, dict, tuple) is a *)
(* record [t |-> type, v |-> payload].                                     *)
(***************************************************************************)
EXTENDS Integers, Sequences, FiniteSets, TLC

VARIABLES
    pc,              \* position of the run in the script
    api_key,         \* st.text_input value (text)
    uploaded_files,  \* st.file_uploader value: sequence of documents
    pdf_texts,       \* first value returned by extract_pdf_text
    page_mappings,   \* second value returned by extract_pdf_text
    gemini_response, \* value returned by call_gemini_api
    result,          \* value returned by parse_gemini_response
    errors,          \* st.error messages shown, in order
    shown,           \* st.subheader / st.write output, in order
    infos,           \* st.info messages shown, in order
    parse_calls,     \* number of invocations of parse_gemini_response
    requests_sent,   \* number of requests.post calls
    http_response,   \* what the endpoint answered to the last request
    raised           \* the exception that ended the run uncaught, or "" if none

vars == <<pc, api_key, uploaded_files, pdf_texts, page_mappings, gemini_response,
          result, errors, shown, infos, parse_calls, requests_sent, http_response,
          raised>>

---------------------------------------------------------------------------
\* Bounds of the model.

\* documents per upload, in the extractor's own specification
MaxDocs == 2
\* pages per document, in the extractor's own specification
MaxPages == 2
\* lines per generated reply, in the field extractor's own specification
MaxLines == 3

---------------------------------------------------------------------------
\* Characters and text.

NL == "\n"

UpperCase == <<"A","B","C","D","E","F","G","H","I","J","K","L","M",
               "N","O","P","Q","R","S","T","U","V","W","X","Y","Z">>

LowerCase == <<"a","b","c","d","e","f","g","h","i","j","k","l","m",
               "n","o","p","q","r","s","t","u","v","w","x","y","z">>

Digits == <<"0","1","2","3","4","5","6","7","8","9">>

Range(s) == {s[i] : i \in DOMAIN s}

UpperSet == Range(UpperCase)

LowerSet == Range(LowerCase)

DigitSet == Range(Digits)

\* regex class \s
IsSpace(c) == c \in {" ", NL, "\t", "\r"}

\* regex class [A-Za-z]
IsAlpha(c) == c \in UpperSet \/ c \in LowerSet

\* regex class \d
IsDigit(c) == c \in DigitSet

\* str.lower() of one character; also how re.IGNORECASE compares characters
LowerChar(c) ==
    IF c \in UpperSet THEN LowerCase[CHOOSE i \in 1..26 : UpperCase[i] = c] ELSE c

\* str.lower()
Lower(s) == [i \in 1..Len(s) |-> LowerChar(s[i])]

\* s[a..b], 1-based and inclusive; empty when b < a
Slice(s, a, b) == IF b < a THEN <<>> ELSE SubSeq(s, a, b)

\* the literal lit stands in s at position i (1-based)
At(s, i, lit) ==
    /\ i >= 1
    /\ i + Len(lit) - 1 <= Len(s)
    /\ \A k \in 1..Len(lit) : s[i + k - 1] = lit[k]

\* the same under re.IGNORECASE
AtI(s, i, lit) ==
    /\ i >= 1
    /\ i + Len(lit) - 1 <= Len(s)
    /\ \A k \in 1..Len(lit) : LowerChar(s[i + k - 1]) = LowerChar(lit[k])

\* needle in haystack (Python's substring test)
Contains(haystack, needle) ==
    \E i \in 1..(Len(haystack) + 1) : At(haystack, i, needle)

\* str.strip()
Strip(s) ==
    IF \A i \in 1..Len(s) : IsSpace(s[i]) THEN <<>>
    ELSE SubSeq(s,
             CHOOSE a \in 1..Len(s) :
                 ~IsSpace(s[a]) /\ \A j \in 1..(a - 1) : IsSpace(s[j]),
             CHOOSE b \in 1..Len(s) :
                 ~IsSpace(s[b]) /\ \A j \in (b + 1)..Len(s) : IsSpace(s[j]))

RECURSIVE IntToStr(_)
\* str(n) for n >= 0
IntToStr(n) ==
    IF n < 10 THEN <<Digits[n + 1]>>
    ELSE IntToStr(n \div 10) \o <<Digits[(n % 10) + 1]>>

\* sep.join(ss)
RECURSIVE Join(_, _)
Join(sep, ss) ==
    IF ss = <<>> THEN <<>>
    ELSE IF Len(ss) = 1 THEN ss[1]
    ELSE ss[1] \o sep \o Join(sep, Tail(ss))

---------------------------------------------------------------------------
\* Python values.

PyNone == [t |-> "None", v |-> <<>>]

PyStr(s) == [t |-> "str", v |-> s]

PyList(s) == [t |-> "list", v |-> s]

PyDict(f) == [t |-> "dict", v |-> f]

PyTuple(s) == [t |-> "tuple", v |-> s]

\* an exception in flight
Exc(name) == [t |-> "exc", v |-> name]

IsExc(x) == x.t = "exc"

\* bool(x)
Truthy(x) ==
    CASE x.t = "None" -> FALSE
      [] x.t = "str" -> x.v # <<>>
      [] x.t = "list" -> x.v # <<>>
      [] x.t = "tuple" -> x.v # <<>>
      [] x.t = "dict" -> DOMAIN x.v # {}
      [] OTHER -> TRUE

---------------------------------------------------------------------------
\* extract_pdf_text.

\* "\n[Page {page_num}]\n{page_text}"
PageBlock(page_num, page_text) ==
    <<NL, "[", "P", "a", "g", "e", " ">> \o IntToStr(page_num) \o <<"]", NL>>
        \o page_text

\* "if page_text is not None:" in place of "if page_text:"
HasText_NotNone(page_text) == page_text.t = "str"

\* "if page_text:"
HasText(page_text) == Truthy(page_text)

\* The loop over the pages of one document, from page page_num on: the pair
\* <<text, page_mappings>> after it.
RECURSIVE ExtractPages(_, _, _, _, _)
ExtractPages(name, pages, page_num, text, mappings) ==
    IF page_num > Len(pages) THEN <<text, mappings>>
    ELSE IF HasText(pages[page_num])
         THEN ExtractPages(name, pages, page_num + 1,
                           text \o PageBlock(page_num, pages[page_num].v),
                           Append(mappings, <<name, page_num, pages[page_num].v>>))
         ELSE ExtractPages(name, pages, page_num + 1, text, mappings)

\* pdf_texts.append((uploaded_file.name, text)) after the pages of document
\* i, r being <<text, page_mappings>> after them
AfterPages(files, i, texts, r) == <<Append(texts, <<files[i].name, r[1]>>), r[2]>>

\* The loop over the documents, from document i on, acc being
\* <<pdf_texts, page_mappings>> so far: Exc when a document does not open,
\* else PyTuple(<<pdf_texts, page_mappings>>).
RECURSIVE ExtractFiles(_, _, _)
ExtractFiles(files, i, acc) ==
    IF i > Len(files) THEN PyTuple(acc)
    ELSE IF ~files[i].opens THEN Exc("PDFSyntaxError")
    ELSE ExtractFiles(files, i + 1,
             AfterPages(files, i, acc[1],
                 ExtractPages(files[i].name, files[i].pages, 1, <<>>, acc[2])))

extract_pdf_text(files) == ExtractFiles(files, 1, <<(<<>>), (<<>>)>>)

---------------------------------------------------------------------------
\* Literal texts of the source.

\* "Contractor"
kwContractor == <<"C","o","n","t","r","a","c","t","o","r">>

\* "Builder"
kwBuilder == <<"B","u","i","l","d","e","r">>

\* "Architect"
kwArchitect == <<"A","r","c","h","i","t","e","c","t">>

\* "Designer"
kwDesigner == <<"D","e","s","i","g","n","e","r">>

\* "Client"
kwClient == <<"C","l","i","e","n","t">>

\* "Owner"
kwOwner == <<"O","w","n","e","r">>

\* "Start Date"
kwStartDate == <<"S","t","a","r","t"," ","D","a","t","e">>

\* "Commencement"
kwCommencement == <<"C","o","m","m","e","n","c","e","m","e","n","t">>

\* "End Date"
kwEndDate == <<"E","n","d"," ","D","a","t","e">>

\* "Completion"
kwCompletion == <<"C","o","m","p","l","e","t","i","o","n">>

\* "Trade:"
kwTrade == <<"T","r","a","d","e",":">>

\* "Resources"
kwResources == <<"R","e","s","o","u","r","c","e","s">>

\* ": Page "
CitationSep == <<":"," ","P","a","g","e"," ">>

---------------------------------------------------------------------------
\* The regular expressions of parse_gemini_response.  Positions are 1-based;
\* a span <<start, end>> runs from start to the character before end;
\* <<0, 0>> and position 0 are "no match".

NoSpan == <<0, 0>>

\* the text of a span of s
SpanText(s, g) == Slice(s, g[1], g[2] - 1)

\* the least element of a set of positions, or 0 when it is empty
First(S) == IF S = {} THEN 0 ELSE CHOOSE i \in S : \A j \in S : i <= j

\* the greatest element of a set of positions, or 0 when it is empty
Last(S) == IF S = {} THEN 0 ELSE CHOOSE i \in S : \A j \in S : i >= j

\* the position after the longest run of \s characters starting at p
SpaceRunEnd(s, p) ==
    First({q \in p..(Len(s) + 1) : q = Len(s) + 1 \/ ~IsSpace(s[q])})

\* character class [A-Za-z\s]
IsNameChar(c) == IsAlpha(c) \/ IsSpace(c)

\* the position after the longest run of [A-Za-z\s] characters starting at p
NameRunEnd(s, p) ==
    First({q \in p..(Len(s) + 1) : q = Len(s) + 1 \/ ~IsNameChar(s[q])})

\* the position after the longest run of [^\n] characters starting at p
LineRunEnd(s, p) ==
    First({q \in p..(Len(s) + 1) : q = Len(s) + 1 \/ s[q] = NL})

\* the position after an optional ":" at p  (":?")
AfterColon(s, p) == IF p <= Len(s) /\ s[p] = ":" THEN p + 1 ELSE p

\* "\s*([A-Za-z\s]+)" from position j, where the white space from j ends at
\* w: the span of group 1.  \s* is greedy and gives back one character when
\* no letter follows the white space.
NameGroupFrom(s, j, w) ==
    IF w <= Len(s) /\ IsAlpha(s[w]) THEN <<w, NameRunEnd(s, w)>>
    ELSE IF w > j THEN <<w - 1, w>>
    ELSE NoSpan

\* "(?:...label...):?\s*([A-Za-z\s]+)" with the label read up to position p
NameGroupAfter(s, p) ==
    NameGroupFrom(s, AfterColon(s, p), SpaceRunEnd(s, AfterColon(s, p)))

\* \d{a}/\d{b}/\d{4} stands at w
DateFits(s, w, a, b) ==
    /\ w + a + b + 5 <= Len(s)
    /\ \A k \in 0..(a - 1) : IsDigit(s[w + k])
    /\ s[w + a] = "/"
    /\ \A k \in 0..(b - 1) : IsDigit(s[w + a + 1 + k])
    /\ s[w + a + 1 + b] = "/"
    /\ \A k \in 0..3 : IsDigit(s[w + a + b + 2 + k])

\* the span of a \d{1,2}/\d{1,2}/\d{4} token starting at w
DateTokenAt(s, w) ==
    IF \E a \in {1, 2}, b \in {1, 2} : DateFits(s, w, a, b)
    THEN <<w, w + 6 + First({a + b : a \in {1, 2}, b \in {1, 2}} \cap
                            {n \in 2..4 : \E a \in {1, 2} :
                                n - a \in {1, 2} /\ DateFits(s, w, a, n - a)})>>
    ELSE NoSpan

\* "(?:...label...):?\s*(\d{1,2}/\d{1,2}/\d{4})" with the label read up to p
DateGroupAfter(s, p) == DateTokenAt(s, SpaceRunEnd(s, AfterColon(s, p)))

\* group 1 of a pattern tried at position i with one alternative of its label
GroupForLabel(s, i, label, date) ==
    IF ~AtI(s, i, label) THEN NoSpan
    ELSE IF date THEN DateGroupAfter(s, i + Len(label))
    ELSE NameGroupAfter(s, i + Len(label))

\* the first span of a sequence of spans that is a match
FirstMatch(gs) ==
    IF \E k \in DOMAIN gs : gs[k] # NoSpan
    THEN gs[First({k \in DOMAIN gs : gs[k] # NoSpan})]
    ELSE NoSpan

\* group 1 of one of the six patterns tried at position i: the alternatives
\* of the label are tried in order
GroupAt(s, i, pat) ==
    FirstMatch([k \in 1..Len(pat.labels) |->
                    GroupForLabel(s, i, pat.labels[k], pat.date)])

\* re.search(pattern, response, re.IGNORECASE): the leftmost position where
\* the pattern matches, or 0
SearchPos(s, pat) == First({i \in 1..Len(s) : GroupAt(s, i, pat) # NoSpan})

\* match.group(1) of that search (the search matched)
SearchGroup(s, pat) == SpanText(s, GroupAt(s, SearchPos(s, pat), pat))

\* the patterns dictionary, in its iteration order
patterns == <<
    [key |-> "contractor", labels |-> <<kwContractor, kwBuilder>>, date |-> FALSE],
    [key |-> "architect", labels |-> <<kwArchitect>>, date |-> FALSE],
    [key |-> "designer", labels |-> <<kwDesigner>>, date |-> FALSE],
    [key |-> "client", labels |-> <<kwClient, kwOwner>>, date |-> FALSE],
    [key |-> "start_date", labels |-> <<kwStartDate, kwCommencement>>, date |-> TRUE],
    [key |-> "end_date", labels |-> <<kwEndDate, kwCompletion>>, date |-> TRUE] >>

\* d[k] = v on a dictionary kept as a function
DictSet(d, k, v) == [x \in (DOMAIN d) \cup {k} |-> IF x = k THEN v ELSE d[x]]

\* the result dictionary as initialised
InitialResult ==
    [k \in {"contractor", "architect", "designer", "client", "trades",
            "project_start_date", "project_end_date"} |-> <<>>]

\* the key under which the loop stores the match of pattern n
ResultKey(n) == patterns[n].key

\* the patterns that match somewhere in the response
MatchedPatterns(response) ==
    {n \in 1..Len(patterns) : SearchPos(response, patterns[n]) # 0}

\* res after result[key] = value for every n in matched, value being
\* match.group(1).strip()
StoreMatches(response, res, matched) ==
    [k \in (DOMAIN res) \cup {ResultKey(n) : n \in matched} |->
        IF \E n \in matched : ResultKey(n) = k
        THEN Strip(SearchGroup(response,
                 patterns[Last({n \in matched : ResultKey(n) = k})]))
        ELSE res[k]]

\* The loop "for key, pattern in patterns.items()": every pattern that
\* matches stores its group under its key.
ExtractEntities(response, res) ==
    StoreMatches(response, res, MatchedPatterns(response))

---------------------------------------------------------------------------
\* Trades: re.findall(r"(Trade:.*?)(?=(Trade:|$))", response, re.DOTALL) and
\* the loop over its result.

\* "$" without re.MULTILINE holds at e: at the end of the text, and before a
\* newline that is the last character of the text
DollarAt(s, e) == e = Len(s) + 1 \/ (e = Len(s) /\ s[e] = NL)

\* the lookahead (?=(Trade:|$)) holds at e
TradeLookahead(s, e) == At(s, e, kwTrade) \/ DollarAt(s, e)

\* the leftmost "Trade:" at or after pos, or 0
NextTrade(s, pos) == First({i \in pos..Len(s) : At(s, i, kwTrade)})

\* the end of the match that starts at i: .*? takes as few characters as the
\* lookahead allows
ChunkEnd(s, i) ==
    First({e \in (i + Len(kwTrade))..(Len(s) + 1) : TradeLookahead(s, e)})

\* The spans of the successive matches, the next one starting at i (0: none).
RECURSIVE TradeSpansFrom(_, _)
TradeSpansFrom(s, i) ==
    IF i = 0 THEN <<>>
    ELSE <<(<<i, ChunkEnd(s, i)>>)>>
             \o TradeSpansFrom(s, NextTrade(s, ChunkEnd(s, i)))

\* the spans of all matches: findall scans from the start of the text
TradeSpans(s) == TradeSpansFrom(s, NextTrade(s, 1))

\* group 2 of a match that ends at e: what the lookahead read
LookaheadGroup(s, e) == IF At(s, e, kwTrade) THEN kwTrade ELSE <<>>

\* the tuples made of the spans: findall returns one tuple
\* (group 1, group 2) per match of a pattern with two groups
TradeTuples(s, spans) ==
    [n \in 1..Len(spans) |->
        PyTuple(<<SpanText(s, spans[n]), LookaheadGroup(s, spans[n][2])>>)]

\* trades_section
FindallTrades(s) == TradeTuples(s, TradeSpans(s))

\* "\s*([^\n]+)" from position j, where the white space from j ends at w: the
\* span of group 1.  \s* is greedy and gives back characters until a
\* character other than a newline follows.
LineGroupStart(s, j, w) ==
    IF w <= Len(s) THEN w ELSE Last({p \in j..(w - 1) : s[p] # NL})

\* the span of the [^\n]+ group that starts at g (0: no match)
LineGroupSpan(s, g) == IF g = 0 THEN NoSpan ELSE <<g, LineRunEnd(s, g)>>

\* group 1 of "Trade:\s*([^\n]+)" tried at position i
TradeNameGroupAt(s, i) ==
    IF ~At(s, i, kwTrade) THEN NoSpan
    ELSE LineGroupSpan(s, LineGroupStart(s, i + Len(kwTrade),
                              SpaceRunEnd(s, i + Len(kwTrade))))

\* the match object of a search, kept as its group 1, or None
MatchOrNone(s, i) ==
    IF i = 0 THEN PyNone ELSE PyStr(SpanText(s, TradeNameGroupAt(s, i)))

\* re.search(r"Trade:\s*([^\n]+)", trade): TypeError when trade is not text
SearchTradeName(trade) ==
    IF trade.t # "str" THEN Exc("TypeError")
    ELSE MatchOrNone(trade.v,
             First({i \in 1..Len(trade.v) : TradeNameGroupAt(trade.v, i) # NoSpan}))

\* group 1 of "Resources:?\s*([^\n]+)" tried at position i
ResourceGroupAt(s, i) ==
    IF ~At(s, i, kwResources) THEN NoSpan
    ELSE LineGroupSpan(s,
             LineGroupStart(s, AfterColon(s, i + Len(kwResources)),
                 SpaceRunEnd(s, AfterColon(s, i + Len(kwResources)))))

\* the leftmost match of the Resources pattern at or after pos, or 0
NextResource(s, pos) ==
    First({i \in pos..Len(s) : ResourceGroupAt(s, i) # NoSpan})

\* re.findall(r"Resources:?\s*([^\n]+)", trade), each group stripped (the loop
\* that appends res.strip()); the next match starts at i (0: none)
RECURSIVE ResourcesFrom(_, _)
ResourcesFrom(s, i) ==
    IF i = 0 THEN <<>>
    ELSE <<Strip(SpanText(s, ResourceGroupAt(s, i)))>>
             \o ResourcesFrom(s, NextResource(s, ResourceGroupAt(s, i)[2]))

FindResources(s) == ResourcesFrom(s, NextResource(s, 1))

\* f"{file_name}: Page {page_num}"
Citation(file_name, page_num) == file_name \o CitationSep \o IntToStr(page_num)

\* trade_name.lower() in page_text.lower()
PageMentions(trade_name, page_text) == Contains(Lower(page_text), Lower(trade_name))

\* the loop over page_mappings that collects page_numbers, from record n on
RECURSIVE FindPages(_, _, _)
FindPages(trade_name, mappings, n) ==
    IF n > Len(mappings) THEN <<>>
    ELSE (IF PageMentions(trade_name, mappings[n][3])
          THEN <<Citation(mappings[n][1], mappings[n][2])>>
          ELSE <<>>) \o FindPages(trade_name, mappings, n + 1)

\* result["trades"][trade_name] = entry, on a dictionary kept as the sequence
\* of its entries in insertion order
TradesSet(trades, entry) ==
    IF \E n \in 1..Len(trades) : trades[n].name = entry.name
    THEN [n \in 1..Len(trades) |->
             IF trades[n].name = entry.name THEN entry ELSE trades[n]]
    ELSE Append(trades, entry)

\* the entry built for a chunk whose trade name is trade_name
TradeEntry(trade_name, chunk, mappings) ==
    [name |-> trade_name,
     resources |-> FindResources(chunk),
     pages |-> FindPages(trade_name, mappings, 1)]

\* One pass of the loop "for trade in trades_section" over element trade,
\* given what re.search returned for it: the trades after it, or the
\* exception that leaves the loop.
TradeBody(trade, trade_name_match, trades, mappings) ==
    IF IsExc(trade_name_match) THEN trade_name_match
    ELSE IF ~Truthy(trade_name_match) THEN PyList(trades)
    ELSE PyList(TradesSet(trades,
             TradeEntry(Strip(trade_name_match.v), trade.v, mappings)))

\* The loop from element n on, acc being PyList(trades so far) or the
\* exception already raised.
RECURSIVE TradeLoop(_, _, _, _)
TradeLoop(sections, n, acc, mappings) ==
    IF IsExc(acc) \/ n > Len(sections) THEN acc
    ELSE TradeLoop(sections, n + 1,
             TradeBody(sections[n], SearchTradeName(sections[n]), acc.v, mappings),
             mappings)

\* the value returned at the end: the exception of the loop, or the result
\* with its trades
Finish(res, trades) ==
    IF IsExc(trades) THEN trades ELSE PyDict(DictSet(res, "trades", trades.v))

\* parse_gemini_response(response, page_mappings): PyNone, PyDict(result), or
\* the exception it raises
parse_gemini_response(response, mappings) ==
    IF ~Truthy(response) THEN PyNone
    ELSE Finish(ExtractEntities(response.v, InitialResult),
                TradeLoop(FindallTrades(response.v), 1, PyList(<<>>), mappings))

---------------------------------------------------------------------------
\* call_gemini_api.  The endpoint's answer to the one request is the record
\* net: conn (the connection succeeded), status (HTTP status), body (the
\* decoded JSON body, or InvalidJson when the body is not JSON).

InvalidJson == [t |-> "invalid", v |-> <<>>]

EmptyDict == [k \in {} |-> <<>>]

\* requests.post: raises when the connection fails
Post(net) == IF net.conn THEN PyNone ELSE Exc("ConnectionError")

\* raise_for_status as if it were never called: an error status goes unnoticed
RaiseForStatus_Skipped(net) == PyNone

\* response.raise_for_status(): raises on a 4xx or 5xx status
RaiseForStatus(net) ==
    IF net.status >= 400 /\ net.status < 600 THEN Exc("HTTPError") ELSE PyNone

\* response.json(): raises when the body is not JSON
ResponseJson(net) ==
    IF net.body.t = "invalid" THEN Exc("JSONDecodeError") ELSE net.body

\* x.get(key, default)
DictGet(x, key, default) ==
    IF x.t # "dict" THEN Exc("AttributeError")
    ELSE IF key \in DOMAIN x.v THEN x.v[key] ELSE default

\* x[0]
Index0(x) ==
    CASE x.t = "list" -> IF x.v = <<>> THEN Exc("IndexError") ELSE x.v[1]
      [] x.t = "str" -> IF x.v = <<>> THEN Exc("IndexError") ELSE PyStr(<<x.v[1]>>)
      [] x.t = "dict" -> Exc("KeyError")
      [] OTHER -> Exc("TypeError")

\* x.get(key, default) on the value of the expression so far, which may
\* already have raised
ThenGet(x, key, default) == IF IsExc(x) THEN x ELSE DictGet(x, key, default)

\* x[0] on the value of the expression so far
ThenIndex0(x) == IF IsExc(x) THEN x ELSE Index0(x)

\* .get("candidates", [{}])[0].get("content", {}).get("parts", [{}])[0]
\*     .get("text", "")
ResponseText(body) ==
    ThenGet(
        ThenIndex0(
            ThenGet(
                ThenGet(
                    ThenIndex0(
                        ThenGet(body, "candidates", PyList(<<PyDict(EmptyDict)>>))),
                    "content", PyDict(EmptyDict)),
                "parts", PyList(<<PyDict(EmptyDict)>>))),
        "text", PyStr(<<>>))

\* the body of the try block: the value returned, or the exception raised
TryRequest(net) ==
    IF IsExc(Post(net)) THEN Post(net)
    ELSE IF IsExc(RaiseForStatus(net)) THEN RaiseForStatus(net)
    ELSE IF IsExc(ResponseJson(net)) THEN ResponseJson(net)
    ELSE ResponseText(ResponseJson(net))

\* st.error(f"Error calling Gemini API: {str(e)}")
ApiErrorMessage(e) == <<"Error calling Gemini API: ", e.v>>

\* an except clause that swallows the exception without st.error
ExceptHandler_Silent(e) == [ret |-> PyNone, errs |-> <<>>]

\* the except clause: the message it shows and the value it returns
ExceptHandler(e) == [ret |-> PyNone, errs |-> <<ApiErrorMessage(e)>>]

\* try/except around r, the outcome of the try block
TryOutcome(r) == IF IsExc(r) THEN ExceptHandler(r) ELSE [ret |-> r, errs |-> <<>>]

\* call_gemini_api(api_key, prompt) when the endpoint answers net: the value
\* returned and the st.error messages shown
call_gemini_api(net) == TryOutcome(TryRequest(net))

---------------------------------------------------------------------------
\* The display of a result (st.subheader and st.write).

\* the three lines and the rule written per trade, from entry n on
RECURSIVE RenderTrades(_, _)
RenderTrades(trades, n) ==
    IF n > Len(trades) THEN <<>>
    ELSE << [label |-> "Trade", value |-> trades[n].name],
            [label |-> "Resources", value |-> Join(<<",", " ">>, trades[n].resources)],
            [label |-> "Page Numbers", value |-> Join(<<",", " ">>, trades[n].pages)],
            [label |-> "---", value |-> <<>>] >>
         \o RenderTrades(trades, n + 1)

\* everything written for a result r (the dictionary)
Render(r) ==
    << [label |-> "Analysis Results", value |-> <<>>],
       [label |-> "Contractor", value |-> r["contractor"]],
       [label |-> "Architect", value |-> r["architect"]],
       [label |-> "Designer", value |-> r["designer"]],
       [label |-> "Client", value |-> r["client"]],
       [label |-> "Project Start Date", value |-> r["project_start_date"]],
       [label |-> "Project End Date", value |-> r["project_end_date"]],
       [label |-> "Trades and Resources", value |-> <<>>] >>
    \o RenderTrades(r["trades"], 1)

CouldNotParseMessage == <<"Could not parse the analysis results.">>

FailedResponseMessage == <<"Failed to get a valid response from the Gemini API.">>

InfoMessage == <<"Please upload PDF files and provide a valid Gemini API key.">>

---------------------------------------------------------------------------
\* Inputs.

\* "Contractor: Acme Builders"
LineContractor == <<"C","o","n","t","r","a","c","t","o","r",":"," ","A","c","m","e"," ","B","u","i","l","d","e","r","s">>

\* "Client: Jane Doe"
LineClient == <<"C","l","i","e","n","t",":"," ","J","a","n","e"," ","D","o","e">>

\* "Trade: Electrical"
LineTradeElectrical == <<"T","r","a","d","e",":"," ","E","l","e","c","t","r","i","c","a","l">>

\* "Resources: wiring, panels"
LineResWiring == <<"R","e","s","o","u","r","c","e","s",":"," ","w","i","r","i","n","g",","," ","p","a","n","e","l","s">>

\* "Trade: Plumbing"
LineTradePlumbing == <<"T","r","a","d","e",":"," ","P","l","u","m","b","i","n","g">>

\* "Resources: pipes"
LineResPipes == <<"R","e","s","o","u","r","c","e","s",":"," ","p","i","p","e","s">>

\* "Trade: HVAC"
LineTradeHVAC == <<"T","r","a","d","e",":"," ","H","V","A","C">>

\* "Resources: ducts"
LineResDucts == <<"R","e","s","o","u","r","c","e","s",":"," ","d","u","c","t","s">>

\* "Start Date: 1/2/2024"
LineStartDate == <<"S","t","a","r","t"," ","D","a","t","e",":"," ","1","/","2","/","2","0","2","4">>

\* "COMPLETION: 12/31/2025"
LineCompletion == <<"C","O","M","P","L","E","T","I","O","N",":"," ","1","2","/","3","1","/","2","0","2","5">>

\* "spec.pdf"
NameSpecPdf == <<"s","p","e","c",".","p","d","f">>

\* "plans.pdf"
NamePlansPdf == <<"p","l","a","n","s",".","p","d","f">>

\* "... electrical rough-in ..."
PageRoughIn == <<".",".","."," ","e","l","e","c","t","r","i","c","a","l"," ","r","o","u","g","h","-","i","n"," ",".",".",".">>

\* "Plumbing and HVAC notes"
PagePlumbing == <<"P","l","u","m","b","i","n","g"," ","a","n","d"," ","H","V","A","C"," ","n","o","t","e","s">>

\* "key"
ApiKey == <<"k","e","y">>

\* lines, each followed by a newline
RECURSIVE Lines(_)
Lines(ls) == IF ls = <<>> THEN <<>> ELSE Head(ls) \o <<NL>> \o Lines(Tail(ls))

\* Scenario A of the specification
ScenarioA == Lines(<<LineContractor, LineClient, LineTradeElectrical, LineResWiring>>)

\* Scenario D of the specification
ScenarioD == Lines(<<LineTradePlumbing, LineResPipes, LineTradeHVAC, LineResDucts>>)

\* a reply that names no trade
ReplyNoTrade == Lines(<<LineContractor, LineClient, LineStartDate, LineCompletion>>)

\* the replies the endpoint gives in the pipeline
PipelineReplies ==
    {<<>>, ScenarioA, ScenarioD, ReplyNoTrade, Lines(<<LineClient>>),
     Lines(<<LineStartDate>>), LineTradeHVAC,
     Lines(<<LineTradeElectrical, LineResWiring>>)}

\* {"candidates": [{"content": {"parts": [{"text": reply}]}}]}
FullBody(reply) ==
    PyDict([candidates |-> PyList(<<PyDict([content |->
        PyDict([parts |-> PyList(<<PyDict([text |-> PyStr(reply)])>>)])])>>)])

\* JSON bodies that lack a key of that shape, or hold an empty list in it
PartialBodies ==
    { PyDict(EmptyDict),
      PyDict([candidates |-> PyList(<<>>)]),
      PyDict([candidates |-> PyList(<<PyDict(EmptyDict)>>)]),
      PyDict([candidates |-> PyList(<<PyDict([content |-> PyDict(EmptyDict)])>>)]),
      PyDict([candidates |-> PyList(<<PyDict([content |->
          PyDict([parts |-> PyList(<<>>)])])>>)]),
      PyDict([candidates |-> PyList(<<PyDict([content |->
          PyDict([parts |-> PyList(<<PyDict(EmptyDict)>>)])])>>)]) }

\* what the endpoint may answer
NetOutcomes ==
    {[conn |-> FALSE, status |-> 0, body |-> InvalidJson]}
    \cup {[conn |-> TRUE, status |-> st, body |-> b] :
            st \in {404, 500}, b \in {InvalidJson, PyDict(EmptyDict)}}
    \cup {[conn |-> TRUE, status |-> 200, body |-> b] :
            b \in {InvalidJson} \cup PartialBodies
                    \cup {FullBody(r) : r \in PipelineReplies}}

\* before any request
NoResponse == [conn |-> FALSE, status |-> 0, body |-> InvalidJson]

\* a document handle: its name, whether pdfplumber opens it, and what
\* extract_text returns for each of its pages
Doc(name, opens, pages) == [name |-> name, opens |-> opens, pages |-> pages]

\* the uploads of the pipeline
PipelineUploads ==
    { <<>>,
      <<Doc(NameSpecPdf, TRUE, <<PyStr(PagePlumbing), PyNone, PyStr(PageRoughIn)>>)>>,
      <<Doc(NameSpecPdf, TRUE, <<PyStr(<<>>)>>),
        Doc(NamePlansPdf, TRUE, <<PyStr(PagePlumbing)>>)>>,
      <<Doc(NamePlansPdf, TRUE, <<>>)>>,
      <<Doc(NameSpecPdf, TRUE, <<PyStr(PageRoughIn)>>),
        Doc(NamePlansPdf, FALSE, <<>>)>> }

\* what extract_text may return for a page, in the extractor's specification
PageValues == {PyNone, PyStr(<<>>), PyStr(<<"a">>)}

\* the documents of the extractor's specification: all of them open
ExtractDocs ==
    {Doc(n, TRUE, ps) : n \in {NameSpecPdf, NamePlansPdf},
                        ps \in UNION {[1..k -> PageValues] : k \in 0..MaxPages}}

ExtractUploads == UNION {[1..k -> ExtractDocs] : k \in 0..MaxDocs}

\* the lines generated replies are made of
ReplyLines ==
    {LineContractor, LineClient, LineTradeElectrical, LineResWiring,
     LineTradePlumbing, LineResPipes, LineStartDate, LineCompletion}

\* the replies of the field extractor's specification: up to MaxLines lines,
\* the last one with or without its newline, and the two scenarios
ParseReplies ==
    {<<>>, ScenarioA, ScenarioD}
    \cup {Join(<<NL>>, ls) \o tail :
            ls \in UNION {[1..k -> ReplyLines] : k \in 1..MaxLines},
            tail \in {<<>>, <<NL>>}}

\* the page records of the field extractor's specification
ParseMappings ==
    { <<>>,
      <<(<<NameSpecPdf, 3, PageRoughIn>>)>>,
      <<(<<NameSpecPdf, 1, PagePlumbing>>), (<<NameSpecPdf, 3, PageRoughIn>>),
        (<<NamePlansPdf, 2, PagePlumbing>>)>> }

---------------------------------------------------------------------------
\* The run of the script.

\* everything but the inputs, before the run
Fresh ==
    /\ pdf_texts = <<>>
    /\ page_mappings = <<>>
    /\ gemini_response = PyNone
    /\ result = PyNone
    /\ errors = <<>>
    /\ shown = <<>>
    /\ infos = <<>>
    /\ parse_calls = 0
    /\ requests_sent = 0
    /\ http_response = NoResponse
    /\ raised = ""

Init ==
    /\ pc = "start"
    /\ api_key \in {<<>>, ApiKey}
    /\ uploaded_files \in PipelineUploads
    /\ Fresh

\* "if uploaded_files and api_key"
Ready == uploaded_files # <<>> /\ api_key # <<>>

\* the else branch: st.info
ShowInfo ==
    /\ pc = "start"
    /\ ~Ready
    /\ infos' = Append(infos, InfoMessage)
    /\ pc' = "done"
    /\ UNCHANGED <<api_key, uploaded_files, pdf_texts, page_mappings, gemini_response,
                   result, errors, shown, parse_calls, requests_sent, http_response, raised>>

\* what the run does with r, the outcome of extract_pdf_text
Extracted(r) ==
    IF IsExc(r)
    THEN /\ raised' = r.v
         /\ pc' = "done"
         /\ UNCHANGED <<pdf_texts, page_mappings>>
    ELSE /\ pdf_texts' = r.v[1]
         /\ page_mappings' = r.v[2]
         /\ pc' = "extracted"
         /\ UNCHANGED raised

\* the button is pressed: pdf_texts, page_mappings = extract_pdf_text(...)
ExtractStep ==
    /\ pc = "start"
    /\ Ready
    /\ Extracted(extract_pdf_text(uploaded_files))
    /\ UNCHANGED <<api_key, uploaded_files, gemini_response, result, errors, shown,
                   infos, parse_calls, requests_sent, http_response>>

\* what the run keeps of r, the outcome of call_gemini_api
Called(r) ==
    /\ gemini_response' = r.ret
    /\ errors' = errors \o r.errs

\* gemini_response = call_gemini_api(api_key, prompt)
CallStep ==
    /\ pc = "extracted"
    /\ \E net \in NetOutcomes :
         /\ http_response' = net
         /\ Called(call_gemini_api(net))
    /\ requests_sent' = requests_sent + 1
    /\ pc' = "called"
    /\ UNCHANGED <<api_key, uploaded_files, pdf_texts, page_mappings, result, shown,
                   infos, parse_calls, raised>>

\* what becomes of r, the outcome of parse_gemini_response: the value is
\* assigned to result, or the exception leaves the run
Parsed(r, pc_returned, pc_raised) ==
    IF IsExc(r)
    THEN /\ raised' = r.v
         /\ pc' = pc_raised
         /\ UNCHANGED result
    ELSE /\ result' = r
         /\ pc' = pc_returned
         /\ UNCHANGED raised

\* "if gemini_response:" taken
ResponseUsable(response) == Truthy(response)

\* result = parse_gemini_response(gemini_response, page_mappings)
ParseStep ==
    /\ pc = "called"
    /\ ResponseUsable(gemini_response)
    /\ parse_calls' = parse_calls + 1
    /\ Parsed(parse_gemini_response(gemini_response, page_mappings), "parsed", "done")
    /\ UNCHANGED <<api_key, uploaded_files, pdf_texts, page_mappings, gemini_response,
                   errors, shown, infos, requests_sent, http_response>>

\* the else branch of "if gemini_response:"
FailedStep ==
    /\ pc = "called"
    /\ ~ResponseUsable(gemini_response)
    /\ errors' = Append(errors, FailedResponseMessage)
    /\ pc' = "done"
    /\ UNCHANGED <<api_key, uploaded_files, pdf_texts, page_mappings, gemini_response,
                   result, shown, infos, parse_calls, requests_sent, http_response, raised>>

\* "if result:" and its two branches
ReportStep ==
    /\ pc = "parsed"
    /\ IF Truthy(result)
       THEN /\ shown' = shown \o Render(result.v)
            /\ UNCHANGED errors
       ELSE /\ errors' = Append(errors, CouldNotParseMessage)
            /\ UNCHANGED shown
    /\ pc' = "done"
    /\ UNCHANGED <<api_key, uploaded_files, pdf_texts, page_mappings, gemini_response,
                   result, infos, parse_calls, requests_sent, http_response, raised>>

Next == ShowInfo \/ ExtractStep \/ CallStep \/ ParseStep \/ FailedStep \/ ReportStep

Spec == Init /\ [][Next]_vars

---------------------------------------------------------------------------
\* extract_pdf_text on its own, over every upload within the bounds.

InitExtract ==
    /\ pc = "start"
    /\ api_key = ApiKey
    /\ uploaded_files \in ExtractUploads
    /\ Fresh

NextExtract == ExtractStep

SpecExtract == InitExtract /\ [][NextExtract]_vars

---------------------------------------------------------------------------
\* parse_gemini_response on its own, over every reply within the bounds.

InitParse ==
    /\ pc = "parse"
    /\ api_key = ApiKey
    /\ uploaded_files = <<>>
    /\ pdf_texts = <<>>
    /\ page_mappings \in ParseMappings
    /\ gemini_response \in {PyNone} \cup {PyStr(r) : r \in ParseReplies}
    /\ result = PyNone
    /\ errors = <<>>
    /\ shown = <<>>
    /\ infos = <<>>
    /\ parse_calls = 0
    /\ requests_sent = 0
    /\ http_response = NoResponse
    /\ raised = ""

\* one call of parse_gemini_response(gemini_response, page_mappings)
ParseCall ==
    /\ pc = "parse"
    /\ parse_calls' = parse_calls + 1
    /\ Parsed(parse_gemini_response(gemini_response, page_mappings),
              "returned", "returned")
    /\ UNCHANGED <<api_key, uploaded_files, pdf_texts, page_mappings, gemini_response,
                   errors, shown, infos, requests_sent, http_response>>

NextParse == ParseCall

SpecParse == InitParse /\ [][NextParse]_vars

---------------------------------------------------------------------------
\* Properties of the pipeline (specification Spec).

\* the request of this run failed: no connection, a status outside 2xx, or a
\* body that is not JSON
RequestFailed ==
    /\ requests_sent > 0
    /\ \/ ~http_response.conn
       \/ http_response.status < 200
       \/ http_response.status > 299
       \/ http_response.body.t = "invalid"

\* the JSON value x is a dictionary that has key
HasKey(x, key) == x.t = "dict" /\ key \in DOMAIN x.v

\* the JSON value x is a list with a first element
HasFirst(x) == x.t = "list" /\ x.v # <<>>

\* the body has the shape candidates[0].content.parts[0].text
FullShape(body) ==
    /\ HasKey(body, "candidates")
    /\ HasFirst(body.v["candidates"])
    /\ HasKey(body.v["candidates"].v[1], "content")
    /\ HasKey(body.v["candidates"].v[1].v["content"], "parts")
    /\ HasFirst(body.v["candidates"].v[1].v["content"].v["parts"])
    /\ HasKey(body.v["candidates"].v[1].v["content"].v["parts"].v[1], "text")

\* the request of this run succeeded with a JSON body
RequestSucceeded ==
    /\ requests_sent > 0
    /\ http_response.conn
    /\ http_response.status >= 200
    /\ http_response.status <= 299
    /\ http_response.body.t # "invalid"

C6_PartialShapeGivesEmptyString ==
    (pc = "called" /\ RequestSucceeded /\ ~FullShape(http_response.body)) =>
        /\ gemini_response = PyStr(<<>>)
        /\ errors = <<>>

\* C7 as claimed: a run whose request succeeded with the empty string as
\* reply ends with the message "Could not parse the analysis results." and
\* without the network-failure message.
C7_EmptyReplyCouldNotParse ==
    (pc = "done" /\ RequestSucceeded /\ gemini_response = PyStr(<<>>)) =>
        /\ \E n \in 1..Len(errors) : errors[n] = CouldNotParseMessage
        /\ \A n \in 1..Len(errors) : errors[n] # FailedResponseMessage

\* C8 as claimed: a run whose request failed has shown exactly one error
\* message when it ends.
C8_OneErrorMessage ==
    (pc = "done" /\ RequestFailed) => Len(errors) = 1

\* C8 as amended: a run whose request failed shows exactly two error
\* messages: first the one of call_gemini_api, "Error calling Gemini API:
\* ...", shown alone while the call returns, then the one of the pipeline,
\* "Failed to get a valid response from the Gemini API."
C8_TwoErrorMessages ==
    RequestFailed =>
        /\ pc = "called" =>
              /\ Len(errors) = 1
              /\ errors[1][1] = "Error calling Gemini API: "
        /\ pc = "done" =>
              /\ Len(errors) = 2
              /\ errors[1][1] = "Error calling Gemini API: "
              /\ errors[2] = FailedResponseMessage

\* C8: a run whose connection failed has ended with its two messages
C8_Witness ==
    /\ pc = "done"
    /\ RequestFailed
    /\ ~http_response.conn
    /\ Len(errors) = 2

---------------------------------------------------------------------------
\* Properties of extract_pdf_text (specification SpecExtract).

\* page p of document d has non-empty extracted text
PageHasText(d, p) ==
    /\ uploaded_files[d].pages[p].t = "str"
    /\ uploaded_files[d].pages[p].v # <<>>

\* the pages with text, as pairs <<document, page number>>
TextPages ==
    {dp \in (1..Len(uploaded_files)) \X (1..MaxPages + 1) :
        /\ dp[2] <= Len(uploaded_files[dp[1]].pages)
        /\ PageHasText(dp[1], dp[2])}

\* the pages with text that come no later than page p of document d
TextPagesUpTo(d, p) ==
    {dp \in TextPages : dp[1] < d \/ (dp[1] = d /\ dp[2] <= p)}

\* C9: after extract_pdf_text on documents that all open, page_mappings holds
\* exactly one record (name, page number, text) per page with non-empty text
\* and none for the other pages, ordered by document and then page number;
\* pdf_texts holds one pair per document, in order, and the pair of a
\* document without any text is (name, ""); nothing is raised.
C9_OneRecordPerTextPage ==
    (pc # "start" /\ \A d \in 1..Len(uploaded_files) : uploaded_files[d].opens) =>
        /\ pc = "extracted"
        /\ raised = ""
        /\ Len(page_mappings) = Cardinality(TextPages)
        /\ \A dp \in TextPages :
              page_mappings[Cardinality(TextPagesUpTo(dp[1], dp[2]))] =
                  <<uploaded_files[dp[1]].name, dp[2],
                    uploaded_files[dp[1]].pages[dp[2]].v>>
        /\ Len(pdf_texts) = Len(uploaded_files)
        /\ \A d \in 1..Len(uploaded_files) :
              /\ pdf_texts[d][1] = uploaded_files[d].name
              /\ (TextPagesUpTo(d, MaxPages + 1) = TextPagesUpTo(d, 0))
                    => pdf_texts[d][2] = <<>>

\* C9: the extractor has run on two documents, the first with pages but no
\* text, the second with a page without text before a page with text
C9_Witness ==
    /\ pc = "extracted"
    /\ Len(uploaded_files) = 2
    /\ Len(uploaded_files[1].pages) = 2
    /\ uploaded_files[1].pages[1] = PyNone
    /\ uploaded_files[1].pages[2] = PyStr(<<>>)
    /\ Len(uploaded_files[2].pages) = 2
    /\ uploaded_files[2].pages[1] = PyStr(<<>>)
    /\ uploaded_files[2].pages[2] = PyStr(<<"a">>)
    /\ pdf_texts[1] = <<uploaded_files[1].name, <<>>>>
    /\ page_mappings = <<(<<uploaded_files[2].name, 2, <<"a">>>>)>>

---------------------------------------------------------------------------
\* Properties of parse_gemini_response (specification SpecParse).  The reply
\* is gemini_response, the page records are page_mappings; the call has
\* returned when pc = "returned" and raised = "".

\* parse_gemini_response has returned a record
ReturnedRecord == pc = "returned" /\ raised = "" /\ result.t = "dict"

\* the leftmost position of the reply where a label of pat stands
LabelPos(s, pat) ==
    First({i \in 1..Len(s) : \E k \in 1..Len(pat.labels) : AtI(s, i, pat.labels[k])})

\* the position after the label that stands at i, and after its colon if any
LabelEnd(s, i, pat) ==
    AfterColon(s, i + Len(pat.labels[First({k \in 1..Len(pat.labels) :
                                               AtI(s, i, pat.labels[k])})]))

\* the end of the line that position p is on
EndOfLine(s, p) == LineRunEnd(s, p)

\* the letters and spaces that follow position p on its own line, trimmed
OwnLineName(s, p) ==
    Strip(Slice(s, p,
        First({q \in p..(Len(s) + 1) :
                  q = Len(s) + 1 \/ s[q] = NL \/ ~IsNameChar(s[q])}) - 1))

\* a label of pat stands in the reply, letters follow it on its line, and
\* further lines follow that line
LabelLineFollowed(s, pat) ==
    /\ LabelPos(s, pat) # 0
    /\ OwnLineName(s, LabelEnd(s, LabelPos(s, pat), pat)) # <<>>
    /\ EndOfLine(s, LabelPos(s, pat)) < Len(s)

\* C1 as claimed, for the calls that return: each name field whose label
\* line is followed by further lines holds the trimmed letters and spaces
\* that follow the first label on its own line, and nothing of the next line.
C1_NameFromOwnLine ==
    ReturnedRecord =>
        \A n \in 1..4 :
            LabelLineFollowed(gemini_response.v, patterns[n]) =>
                result.v[patterns[n].key] =
                    OwnLineName(gemini_response.v,
                        LabelEnd(gemini_response.v,
                                 LabelPos(gemini_response.v, patterns[n]),
                                 patterns[n]))

\* the chunks of the reply: group 1 of each match of the segmentation regex
Chunks(s) == [n \in 1..Len(TradeSpans(s)) |-> SpanText(s, TradeSpans(s)[n])]

\* the trade name of a chunk: what follows "Trade:", trimmed
ChunkName(chunk) == Strip(SearchTradeName(PyStr(chunk)).v)

\* the chunks of the reply name distinct trades
DistinctTrades(s) ==
    \A m, n \in 1..Len(Chunks(s)) :
        /\ SearchTradeName(PyStr(Chunks(s)[n])) # PyNone
        /\ (m # n => ChunkName(Chunks(s)[m]) # ChunkName(Chunks(s)[n]))

\* C2 as claimed: for a reply with n >= 1 chunks introduced by "Trade:" that
\* name distinct trades, the call returns a record whose trades are those n
\* names in order, each with the trimmed Resources lines of its own chunk.
C2_OneEntryPerTrade ==
    (pc = "returned" /\ Len(Chunks(gemini_response.v)) >= 1
        /\ DistinctTrades(gemini_response.v)) =>
        /\ ReturnedRecord
        /\ Len(result.v["trades"]) = Len(Chunks(gemini_response.v))
        /\ \A n \in 1..Len(Chunks(gemini_response.v)) :
              /\ result.v["trades"][n].name = ChunkName(Chunks(gemini_response.v)[n])
              /\ result.v["trades"][n].resources =
                     FindResources(Chunks(gemini_response.v)[n])

\* C3 as claimed: every trade name extracted from the reply has an entry in
\* the returned record whose pages are the citations "<name>: Page <n>" of
\* the page records whose text contains the trade name, case-insensitively,
\* in the order of the records.
C3_PagesOfTrade ==
    pc = "returned" =>
        \A n \in 1..Len(Chunks(gemini_response.v)) :
            SearchTradeName(PyStr(Chunks(gemini_response.v)[n])) # PyNone =>
                /\ ReturnedRecord
                /\ \E m \in 1..Len(result.v["trades"]) :
                      /\ result.v["trades"][m].name =
                             ChunkName(Chunks(gemini_response.v)[n])
                      /\ result.v["trades"][m].pages =
                             FindPages(ChunkName(Chunks(gemini_response.v)[n]),
                                       page_mappings, 1)

\* the fields of an AnalysisResult
ResultFields ==
    {"contractor", "architect", "designer", "client", "project_start_date",
     "project_end_date", "trades"}

\* the field holds the first token the date pattern n captures in the reply,
\* and is empty only when the pattern matches nowhere
DateFieldHolds(field, n) ==
    IF SearchPos(gemini_response.v, patterns[n]) # 0
    THEN result.v[field] = SearchGroup(gemini_response.v, patterns[n])
    ELSE result.v[field] = <<>>

\* C4 as claimed, for the calls that return: project_start_date and
\* project_end_date hold the first date token after their labels, each is
\* empty only without a match, and the record has exactly the seven fields.
C4_DateFields ==
    ReturnedRecord =>
        /\ DateFieldHolds("project_start_date", 5)
        /\ DateFieldHolds("project_end_date", 6)
        /\ DOMAIN result.v = ResultFields

\* the concatenation of a sequence of texts
RECURSIVE Concat(_)
Concat(ss) == IF ss = <<>> THEN <<>> ELSE Head(ss) \o Concat(Tail(ss))

\* C10 as claimed: the chunks are the successive stretches of the reply from
\* one "Trade:" to the next or to the very end of the reply, so that together
\* they are the reply from its first "Trade:" to its end, trailing newline
\* included.
C10_ChunksTileReply ==
    (pc = "returned" /\ NextTrade(gemini_response.v, 1) # 0) =>
        /\ \A n \in 1..Len(Chunks(gemini_response.v)) :
              At(Chunks(gemini_response.v)[n], 1, kwTrade)
        /\ Concat(Chunks(gemini_response.v)) =
               Slice(gemini_response.v, NextTrade(gemini_response.v, 1),
                     Len(gemini_response.v))

====
